---- MODULE Spec2Model ----
(***************************************************************************)
(* A model of libMesh's SparseMatrix<T> base class                         *)
(* (src/numerics/sparse_matrix.C): the attach_* methods, add_block_matrix, *)
(* the build factory and the collective print.                             *)
(*                                                                         *)
(* libmesh_assert* and libmesh_error_msg* are modelled as they behave in a *)
(* build with assertions enabled: a failed check ends the call fatally.    *)
(***************************************************************************)
EXTENDS Integers, Sequences, FiniteSets, TLC

VARIABLES
  \* ---- one SparseMatrix object and its attach_* calls
  _dof_map,        \* SparseMatrix::_dof_map  (NULL or a DofMap)
  _sp,             \* SparseMatrix::_sp       (NULL or a SparsityPattern::Build)
  dmSp,            \* what DofMap::get_sparsity_pattern() returns, per DofMap
  calls,           \* the attach_* calls made so far, oldest first
  \* ---- add_block_matrix
  blockIn,         \* the arguments of the add_block_matrix call
  blockOut,        \* how the call ended
  addCalls,        \* the add_matrix calls it made
  divTraps,        \* whether an integer division by zero traps in this build
  \* ---- build
  have,            \* the LIBMESH_HAVE_* macros defined in this build
  buildCall,       \* the arguments of the last build call
  built,           \* what the last build call returned
  \* ---- print: the matrix and the process group
  m, n,            \* this->m(), this->n()
  A,               \* (*this)(i,j), the global entries
  nprocs,          \* this->n_processors()
  first_dof,       \* _dof_map->first_dof() on each rank
  end_dof,         \* _dof_map->end_dof() on each rank
  is_initialized,  \* this->initialized() on each rank
  has_dof_map,     \* this->_dof_map != nullptr on each rank
  sparse,          \* the argument of print
  sync,            \* whether a send completes only with its matching receive
  \* ---- print: each rank's progress
  pc,              \* where each rank is in print
  sendbuf,         \* a non-root rank's <<ibuf, jbuf, cbuf>>
  nsent,           \* how many of them it has sent
  chan,            \* per sender, the vectors sent to rank 0 and not yet received
  rootp,           \* the root's loop variable p
  nrecv,           \* receives the root has completed
  recvLog,         \* the source rank of each completed receive
  ibuf, jbuf, cbuf,\* the root's receive buffers
  currenti,        \* the root's row cursor
  os,              \* the lines written to the stream
  rootLog,         \* what each pass of the root's loop did (for reference)
  writers,         \* the ranks that have written to the stream
  \* ---- the Complex specialization of print
  cplx,            \* a complex matrix, the print call on it and its outcome
  \* ---- vector_mult, vector_mult_add
  vec              \* the matrix, arg, dest and the calls made on dest

attachVars == <<_dof_map, _sp, dmSp, calls>>
blockVars  == <<blockIn, blockOut, addCalls, divTraps>>
buildVars  == <<have, buildCall, built>>
matVars    == <<m, n, A, nprocs, first_dof, end_dof, is_initialized,
                has_dof_map, sparse, sync>>
rootVars   == <<rootp, nrecv, recvLog, ibuf, jbuf, cbuf, currenti, os,
                rootLog>>
printVars  == <<matVars, pc, sendbuf, nsent, chan, rootVars, writers>>
auxVars    == <<cplx, vec>>
otherVars  == <<attachVars, blockVars, buildVars, auxVars>>
vars == <<attachVars, blockVars, buildVars, printVars, auxVars>>

\* nullptr; DofMap and SparsityPattern objects are numbered from 1.
NULL == 0

(***************************************************************************)
(* Bounds of the model                                                     *)
(***************************************************************************)
NumDofMaps  == 2   \* DofMap objects a caller may attach
NumPatterns == 2   \* SparsityPattern::Build objects
MaxCalls    == 3   \* attach_* calls in one run
MaxDim      == 4   \* rows / columns of the element matrix
MaxBlocks   == 2   \* block indices per dimension
MaxBlockIdx == 1   \* largest block index
MaxP        == 3   \* processes in the group
MaxSize     == 6   \* processes plus rows plus columns of the printed matrix
MaxBuf      == 2   \* length of a vector received from a foreign sender
MaxWire     == 1   \* largest index in such a vector
MaxCSize    == 3   \* rows plus columns of the complex matrix
MaxVecSize  == 4   \* rows plus columns of the matrix of vector_mult
MaxVecVal   == 1   \* largest entry of arg and of dest before the calls
MaxVecCalls == 2   \* vector_mult / vector_mult_add calls in one run

DofMaps  == 1..NumDofMaps
Patterns == 1..NumPatterns

(***************************************************************************)
(* Constructor, attach_dof_map, attach_sparsity_pattern                    *)
(***************************************************************************)
\* A plausible slip: attach_dof_map always pulls the DofMap's pattern.
AttachDofMapSpAlways(sp, d, dmsp) == dmsp[d]

\* The value of _sp after attach_dof_map(d): lines 61-62.
AttachDofMapSp(sp, d, dmsp) == IF sp = NULL THEN dmsp[d] ELSE sp

\* The state of the attach variables of a freshly constructed matrix.
Constructed ==
  /\ _dof_map = NULL
  /\ _sp = NULL
  /\ calls = <<>>

attach_dof_map(d) ==
  /\ Len(calls) < MaxCalls
  /\ _dof_map' = d
  /\ _sp' = AttachDofMapSp(_sp, d, dmSp)
  /\ calls' = Append(calls, [op |-> "attach_dof_map", arg |-> d])
  /\ UNCHANGED <<dmSp, blockVars, buildVars, printVars, auxVars>>

attach_sparsity_pattern(sp) ==
  /\ Len(calls) < MaxCalls
  /\ _sp' = sp
  /\ calls' = Append(calls, [op |-> "attach_sparsity_pattern", arg |-> sp])
  /\ UNCHANGED <<_dof_map, dmSp, blockVars, buildVars, printVars, auxVars>>

(***************************************************************************)
(* add_block_matrix                                                        *)
(***************************************************************************)
\* Unsigned division and remainder.  Division by zero is undefined
\* behaviour: a build either traps (divTraps, e.g. x86) or, where the
\* divide instruction does not trap (e.g. AArch64), yields quotient 0 and
\* so remainder a - 0*b = a.
Quot(a, b) == IF b = 0 THEN 0 ELSE a \div b
Rem(a, b)  == IF b = 0 THEN a ELSE a % b

RECURSIVE ExpandFrom(_, _, _)
\* Inner loop, lines 98-99: v = 0..blocksize-1 pushes i, i+1, ...
ExpandFrom(i, v, blocksize) ==
  IF v >= blocksize THEN <<>>
  ELSE <<i>> \o ExpandFrom(i + 1, v + 1, blocksize)

RECURSIVE Expand(_, _)
\* Outer loop, lines 94-100 (rows) and 102-108 (columns).
Expand(bidx, blocksize) ==
  IF bidx = <<>> THEN <<>>
  ELSE ExpandFrom(Head(bidx) * blocksize, 0, blocksize)
         \o Expand(Tail(bidx), blocksize)

Fatal(why) == [status |-> "fatal", why |-> why]

\* The whole of add_block_matrix on (dm, brows, bcols): how it ends and the
\* index vectors it hands to add_matrix.
AddBlockMatrixResult(dm, brows, bcols, traps) ==
  IF (Len(brows) = 0 \/ Len(bcols) = 0) /\ traps
    THEN Fatal("divide by zero")                                  \* line 81
  ELSE IF Quot(dm.m, Len(brows)) # Quot(dm.n, Len(bcols))
    THEN Fatal("libmesh_assert_equal_to")                         \* line 81
  ELSE LET blocksize == Quot(dm.m, Len(brows)) IN                 \* line 83
    IF blocksize = 0 /\ traps
      THEN Fatal("divide by zero")                                \* line 86
    ELSE IF Rem(dm.m, blocksize) # 0 \/ Rem(dm.n, blocksize) # 0
      THEN Fatal("libmesh_assert_equal_to")                       \* 86-87
    ELSE [status |-> "added",
          rows |-> Expand(brows, blocksize),
          cols |-> Expand(bcols, blocksize)]

add_block_matrix ==
  /\ blockOut.status = "pending"
  /\ LET r == AddBlockMatrixResult(blockIn.dm, blockIn.brows, blockIn.bcols,
                                   divTraps) IN
       /\ blockOut' = r
       /\ addCalls' = IF r.status = "added"
                        THEN Append(addCalls, [dm |-> blockIn.dm,
                                               rows |-> r.rows,
                                               cols |-> r.cols])
                        ELSE addCalls
  /\ UNCHANGED <<blockIn, divTraps, attachVars, buildVars, printVars,
                 auxVars>>

(***************************************************************************)
(* build                                                                   *)
(***************************************************************************)
SolverPackages ==
  {"LASPACK_SOLVERS", "PETSC_SOLVERS", "TRILINOS_SOLVERS", "EIGEN_SOLVERS",
   "SLEPC_SOLVERS", "INVALID_SOLVER_PACKAGE"}
MatrixBuildTypes == {"AUTOMATIC", "DIAGONAL"}
HaveMacros ==
  {"LIBMESH_HAVE_LASPACK", "LIBMESH_HAVE_PETSC",
   "LIBMESH_TRILINOS_HAVE_EPETRA", "LIBMESH_HAVE_EIGEN"}

\* A matrix as its constructor leaves it (lines 48-53).
NewMatrix(variant) ==
  [kind |-> "matrix", variant |-> variant, dof_map |-> NULL, sp |-> NULL,
   is_initialized |-> FALSE]

UnrecognizedSolverPackage(tag) ==
  [kind |-> "error", msg |-> "ERROR:  Unrecognized solver package: ",
   tag |-> tag]

\* The switch of lines 162-190.
BuildSwitch(solver_package, macros) ==
  CASE solver_package = "LASPACK_SOLVERS" /\ "LIBMESH_HAVE_LASPACK" \in macros
         -> NewMatrix("LaspackMatrix")
    [] solver_package = "PETSC_SOLVERS" /\ "LIBMESH_HAVE_PETSC" \in macros
         -> NewMatrix("PetscMatrix")
    [] solver_package = "TRILINOS_SOLVERS"
         /\ "LIBMESH_TRILINOS_HAVE_EPETRA" \in macros
         -> NewMatrix("EpetraMatrix")
    [] solver_package = "EIGEN_SOLVERS" /\ "LIBMESH_HAVE_EIGEN" \in macros
         -> NewMatrix("EigenSparseMatrix")
    [] OTHER -> UnrecognizedSolverPackage(solver_package)

\* A plausible slip: the DIAGONAL test placed after the vendor switch.
BuildResultSwitchFirst(solver_package, matrix_build_type, macros) ==
  LET r == BuildSwitch(solver_package, macros) IN
    IF r.kind = "error" THEN r
    ELSE IF matrix_build_type = "DIAGONAL" THEN NewMatrix("DiagonalMatrix")
    ELSE r

\* A plausible slip: the #ifdef guards dropped from the switch.
BuildResultUnguarded(solver_package, matrix_build_type, macros) ==
  IF matrix_build_type = "DIAGONAL" THEN NewMatrix("DiagonalMatrix")
  ELSE BuildSwitch(solver_package, HaveMacros)

\* build(comm, solver_package, matrix_build_type): lines 158-190.
BuildResult(solver_package, matrix_build_type, macros) ==
  IF matrix_build_type = "DIAGONAL" THEN NewMatrix("DiagonalMatrix")
  ELSE BuildSwitch(solver_package, macros)

build(solver_package, matrix_build_type) ==
  /\ buildCall' = [solver_package |-> solver_package,
                   matrix_build_type |-> matrix_build_type]
  /\ built' = BuildResult(solver_package, matrix_build_type, have)
  /\ UNCHANGED <<have, attachVars, blockVars, printVars, auxVars>>

(***************************************************************************)
(* print (real-valued): lines 225-345                                      *)
(***************************************************************************)
Ranks    == 0..(nprocs - 1)
NonRoots == 1..(nprocs - 1)

\* operator<< on a value: the default stream precision keeps
\* StreamPrecision significant digits (values here are naturals).
StreamPrecision == 6
RECURSIVE Pow10(_)
Pow10(k) == IF k = 0 THEN 1 ELSE 10 * Pow10(k - 1)
RECURSIVE Digits(_)
Digits(c) == IF c < 10 THEN 1 ELSE 1 + Digits(c \div 10)
Shown(c) ==
  IF Digits(c) <= StreamPrecision THEN c
  ELSE LET scale == Pow10(Digits(c) - StreamPrecision) IN
         ((c + scale \div 2) \div scale) * scale

\* The element of a one-element set.  {e(x) : x \in {v}} is how a value is
\* named below where a LET would do: TLC then computes v once, not at
\* every use of the name.
The(S) == CHOOSE x \in S : TRUE

\* One line of output: its text (the fields written before std::endl) and,
\* for reference, the row index the loop held when it wrote the line.
Line(row, text) == [row |-> row, text |-> text]

RECURSIVE DenseFields(_, _, _)
\* Lines 254-255: the fields of local row i from column j on.
DenseFields(i, j, ncols) ==
  IF j >= ncols THEN <<>>
  ELSE <<Shown(A[<<i, j>>])>> \o DenseFields(i, j + 1, ncols)

RECURSIVE SparseLinesSwapped(_, _, _)
\* A plausible slip: the triplet written as `j i c`.
SparseLinesSwapped(i, j, ncols) ==
  IF j >= ncols THEN <<>>
  ELSE (IF A[<<i, j>>] # 0
          THEN <<Line(i, <<j, i, Shown(A[<<i, j>>])>>)>>
          ELSE <<>>)
       \o SparseLinesSwapped(i, j + 1, ncols)

RECURSIVE SparseLines(_, _, _)
\* Lines 243-250: the triplet lines of local row i from column j on.
SparseLines(i, j, ncols) ==
  IF j >= ncols THEN <<>>
  ELSE (IF A[<<i, j>>] # 0
          THEN <<Line(i, <<i, j, Shown(A[<<i, j>>])>>)>>
          ELSE <<>>)
       \o SparseLines(i, j + 1, ncols)

RECURSIVE LocalLines(_, _, _, _)
\* Lines 238-258: the root's own rows [i, stop).
LocalLines(i, stop, ncols, sp) ==
  IF i >= stop THEN <<>>
  ELSE (IF sp THEN SparseLines(i, 0, ncols)
              ELSE <<Line(i, DenseFields(i, 0, ncols))>>)
       \o LocalLines(i + 1, stop, ncols, sp)

RECURSIVE ScanRowAll(_, _, _)
\* A plausible slip: the scan without its c != 0 test.
ScanRowAll(i, j, ncols) ==
  IF j >= ncols THEN <<>>
  ELSE <<<<i, j, A[<<i, j>>]>>>> \o ScanRowAll(i, j + 1, ncols)

RECURSIVE ScanRow(_, _, _)
\* Lines 330-339: the triplets of row i from column j on.
ScanRow(i, j, ncols) ==
  IF j >= ncols THEN <<>>
  ELSE (IF A[<<i, j>>] # 0 THEN <<<<i, j, A[<<i, j>>]>>>> ELSE <<>>)
       \o ScanRow(i, j + 1, ncols)

RECURSIVE ScanRows(_, _, _)
\* Lines 327-340: the triplets of rows [i, stop).
ScanRows(i, stop, ncols) ==
  IF i >= stop THEN <<>>
  ELSE ScanRow(i, 0, ncols) \o ScanRows(i + 1, stop, ncols)

\* A plausible slip: the scan keeping the zeros when the print is dense.
ScanLocalByMode(p) ==
  LET t == IF sparse THEN ScanRows(first_dof[p], end_dof[p], n)
           ELSE [k \in 1..((end_dof[p] - first_dof[p]) * n) |->
                   LET i == first_dof[p] + (k - 1) \div n
                       j == (k - 1) % n
                   IN <<i, j, A[<<i, j>>]>>]
  IN << [k \in 1..Len(t) |-> t[k][1]],
        [k \in 1..Len(t) |-> t[k][2]],
        [k \in 1..Len(t) |-> t[k][3]] >>

\* The three vectors a non-root rank sends: <<ibuf, jbuf, cbuf>>.
ScanLocal(p) ==
  LET t == ScanRows(first_dof[p], end_dof[p], n) IN
    << [k \in 1..Len(t) |-> t[k][1]],
       [k \in 1..Len(t) |-> t[k][2]],
       [k \in 1..Len(t) |-> t[k][3]] >>

\* Lines 283-285: does triplet currentb (0-based) sit at (row, j)?
Matches(ib, jb, currentb, row, j) ==
  /\ currentb < Len(ib)
  /\ ib[currentb + 1] = row
  /\ jb[currentb + 1] = j

RECURSIVE DrainRowSparseKeepsCursor(_, _, _, _, _, _, _)
\* A plausible slip: the sparse branch without its currentb++.
DrainRowSparseKeepsCursor(ib, jb, cb, row, currentb, j, ncols) ==
  IF j >= ncols THEN [out |-> <<>>, currentb |-> currentb]
  ELSE IF Matches(ib, jb, currentb, row, j)
    THEN LET r == DrainRowSparseKeepsCursor(ib, jb, cb, row, currentb, j + 1,
                                            ncols)
         IN [out |-> <<Line(row, <<row, j, Shown(cb[currentb + 1])>>)>> \o r.out,
             currentb |-> r.currentb]
    ELSE DrainRowSparseKeepsCursor(ib, jb, cb, row, currentb, j + 1, ncols)

RECURSIVE DrainRowSparse(_, _, _, _, _, _, _)
\* Lines 281-290: columns j.. of row `row`; the lines and the new currentb.
DrainRowSparse(ib, jb, cb, row, currentb, j, ncols) ==
  IF j >= ncols THEN [out |-> <<>>, currentb |-> currentb]
  ELSE IF Matches(ib, jb, currentb, row, j)
    THEN LET r == DrainRowSparse(ib, jb, cb, row, currentb + 1, j + 1, ncols)
         IN [out |-> <<Line(row, <<row, j, Shown(cb[currentb + 1])>>)>> \o r.out,
             currentb |-> r.currentb]
    ELSE DrainRowSparse(ib, jb, cb, row, currentb, j + 1, ncols)

RECURSIVE DrainRowDenseNoZeros(_, _, _, _, _, _, _)
\* A plausible slip: the dense branch without its else (no explicit zero).
DrainRowDenseNoZeros(ib, jb, cb, row, currentb, j, ncols) ==
  IF j >= ncols THEN [out |-> <<>>, currentb |-> currentb]
  ELSE IF Matches(ib, jb, currentb, row, j)
    THEN LET r == DrainRowDenseNoZeros(ib, jb, cb, row, currentb + 1, j + 1,
                                       ncols)
         IN [out |-> <<Shown(cb[currentb + 1])>> \o r.out,
             currentb |-> r.currentb]
    ELSE DrainRowDenseNoZeros(ib, jb, cb, row, currentb, j + 1, ncols)

RECURSIVE DrainRowDense(_, _, _, _, _, _, _)
\* Lines 294-305: columns j.. of row `row`; the fields and the new currentb.
DrainRowDense(ib, jb, cb, row, currentb, j, ncols) ==
  IF j >= ncols THEN [out |-> <<>>, currentb |-> currentb]
  ELSE IF Matches(ib, jb, currentb, row, j)
    THEN LET r == DrainRowDense(ib, jb, cb, row, currentb + 1, j + 1, ncols)
         IN [out |-> <<Shown(cb[currentb + 1])>> \o r.out,
             currentb |-> r.currentb]
    ELSE LET r == DrainRowDense(ib, jb, cb, row, currentb, j + 1, ncols)
         IN [out |-> <<Shown(0)>> \o r.out, currentb |-> r.currentb]

RECURSIVE Drain(_, _, _, _, _, _, _)
\* Lines 277-308: rows row..ibuf.back(); the lines written, the row cursor
\* and currentb when the loop ends.
Drain(ib, jb, cb, row, currentb, ncols, sp) ==
  IF row > ib[Len(ib)]
    THEN [lines |-> <<>>, currenti |-> row, currentb |-> currentb]
  ELSE The(UNION {
         {[d EXCEPT !.lines = (IF sp THEN r.out ELSE <<Line(row, r.out)>>)
                               \o d.lines] :
            d \in {Drain(ib, jb, cb, row + 1, r.currentb, ncols, sp)}} :
         r \in {IF sp
                  THEN DrainRowSparse(ib, jb, cb, row, currentb, 0, ncols)
                  ELSE DrainRowDense(ib, jb, cb, row, currentb, 0, ncols)}})

RECURSIVE ZeroFields(_, _)
\* Lines 314-315.
ZeroFields(j, ncols) ==
  IF j >= ncols THEN <<>> ELSE <<Shown(0)>> \o ZeroFields(j + 1, ncols)

\* A plausible slip: the trailing padding left out.
PadLinesNone(row, nrows, ncols) == <<>>

RECURSIVE PadLines(_, _, _)
\* Lines 312-317: all-zero rows row..nrows-1 (row <= nrows).
PadLines(row, nrows, ncols) ==
  IF row >= nrows THEN <<>>
  ELSE <<Line(row, ZeroFields(0, ncols))>> \o PadLines(row + 1, nrows, ncols)

\* The root's own state, as one record.
Root ==
  [pc |-> pc[0], rootp |-> rootp, nrecv |-> nrecv, recvLog |-> recvLog,
   ibuf |-> ibuf, jbuf |-> jbuf, cbuf |-> cbuf, currenti |-> currenti,
   os |-> os, log |-> rootLog]

SetRoot(r) ==
  /\ rootp' = r.rootp
  /\ nrecv' = r.nrecv
  /\ recvLog' = r.recvLog
  /\ ibuf' = r.ibuf
  /\ jbuf' = r.jbuf
  /\ cbuf' = r.cbuf
  /\ currenti' = r.currenti
  /\ os' = r.os
  /\ rootLog' = r.log
  /\ writers' = IF r.os # os THEN writers \cup {0} ELSE writers

\* What one pass of the root's loop (ev: "skip", "drain", "sizefail",
\* "orderfail") or the block of lines 310-318 ("pad") did: it took the root
\* from r to r2 and left the buffer cursor at currentb.
LogEntry(ev, r, r2, currentb) ==
  [ev |-> ev, p |-> r.rootp, size |-> Len(r.ibuf), currentb |-> currentb,
   before |-> r.currenti, after |-> r2.currenti,
   from |-> Len(r.os), to |-> Len(r2.os)]
Logged(ev, r, r2, currentb) ==
  [r2 EXCEPT !.log = Append(r.log, LogEntry(ev, r, r2, currentb))]

\* A plausible slip: the padding of lines 312-317 outside `if (!sparse)`.
FinishPadsAlways(r) ==
  IF r.currenti > m THEN [r EXCEPT !.pc = "overrun"]
  ELSE Logged("pad", r,
              [r EXCEPT !.pc = "done",
                        !.os = r.os \o PadLines(r.currenti, m, n),
                        !.currenti = m],
              0)

\* Lines 310-318, the end of the root's branch.  With currenti > m the loop
\* `currenti != m` does not stop at m: the root runs on ("overrun").
Finish(r) ==
  IF sparse THEN [r EXCEPT !.pc = "done"]
  ELSE IF r.currenti > m THEN [r EXCEPT !.pc = "overrun"]
  ELSE Logged("pad", r,
              [r EXCEPT !.pc = "done",
                        !.os = r.os \o PadLines(r.currenti, m, n),
                        !.currenti = m],
              0)

\* A plausible slip: the loop of line 263 running one rank too far.
SendersInclusive(np) == 1..np

\* Line 263: IntRange<processor_id_type>(1, n_processors()).
Senders(np) == 1..(np - 1)

RECURSIVE EnterRankSkipAbsent(_, _)
\* A plausible slip: the loop passing over a rank that has not called print
\* (a receive that gives up).
EnterRankSkipAbsent(r, p) ==
  IF p \in Senders(nprocs)
    THEN IF pc[p] = "absent" THEN EnterRankSkipAbsent(r, p + 1)
         ELSE [r EXCEPT !.pc = "receive", !.rootp = p]
  ELSE Finish(r)

\* The loop header of line 263: on to rank p, or out of the loop.
EnterRank(r, p) ==
  IF p \in Senders(nprocs) THEN [r EXCEPT !.pc = "receive", !.rootp = p]
  ELSE Finish(r)

\* A plausible slip: the two checks of lines 273-274 left out.
ProcessBuffersUnordered(r) ==
  IF Len(r.ibuf) # Len(r.jbuf) \/ Len(r.ibuf) # Len(r.cbuf)
    THEN Logged("sizefail", r, [r EXCEPT !.pc = "failed"], 0)
  ELSE IF r.ibuf = <<>>
    THEN EnterRank(Logged("skip", r, r, 0), r.rootp + 1)
  ELSE The({EnterRank(r2, r.rootp + 1) :
              r2 \in {Logged("drain", r,
                              [r EXCEPT !.os = r.os \o d.lines,
                                        !.currenti = d.currenti],
                              d.currentb) :
                        d \in {Drain(r.ibuf, r.jbuf, r.cbuf, r.currenti, 0, n,
                                     sparse)}}})

\* Lines 268-308: the three vectors of rank rootp are in; check and drain.
ProcessBuffers(r) ==
  IF Len(r.ibuf) # Len(r.jbuf) \/ Len(r.ibuf) # Len(r.cbuf)
    THEN Logged("sizefail", r, [r EXCEPT !.pc = "failed"], 0)  \* 268-269
  ELSE IF r.ibuf = <<>>
    THEN EnterRank(Logged("skip", r, r, 0), r.rootp + 1)       \* 271-272
  ELSE IF r.ibuf[1] < r.currenti \/ r.ibuf[Len(r.ibuf)] < r.ibuf[1]
    THEN Logged("orderfail", r, [r EXCEPT !.pc = "failed"], 0) \* 273-274
  ELSE The({EnterRank(r2, r.rootp + 1) :
              r2 \in {Logged("drain", r,
                              [r EXCEPT !.os = r.os \o d.lines,
                                        !.currenti = d.currenti],
                              d.currentb) :
                        d \in {Drain(r.ibuf, r.jbuf, r.cbuf, r.currenti, 0, n,
                                     sparse)}}})

\* A plausible slip: the root takes a vector from whichever rank has one.
ReceiveSourceAny(p) == {q \in DOMAIN chan : chan[q] # <<>>}

\* Lines 265-267: the rank the root's receives name.
ReceiveSource(p) == {p}

\* One completed receive (lines 265, 266 or 267) of vector v from rank src,
\* and, after the third, lines 268-308.
RootTake(r, src, v) ==
  LET which == r.nrecv % 3 IN
    The({IF which = 2 THEN ProcessBuffers(r1) ELSE r1 :
           r1 \in {[r EXCEPT !.nrecv = r.nrecv + 1,
                             !.recvLog = Append(r.recvLog, src),
                             !.ibuf = IF which = 0 THEN v ELSE r.ibuf,
                             !.jbuf = IF which = 1 THEN v ELSE r.jbuf,
                             !.cbuf = IF which = 2 THEN v ELSE r.cbuf]}})

\* A plausible slip: the checks of lines 229-237 left out.
RootBeginUnchecked(r) ==
  EnterRank([r EXCEPT
               !.os = r.os \o LocalLines(0, end_dof[0], n, sparse),
               !.currenti = end_dof[0]],
            1)

\* Lines 227-262 on rank 0: the checks, the root's own rows, then the loop.
RootBegin(r) ==
  IF ~is_initialized[0] \/ ~has_dof_map[0] \/ first_dof[0] # 0
    THEN [r EXCEPT !.pc = "failed"]
  ELSE EnterRank([r EXCEPT
                    !.os = r.os \o LocalLines(first_dof[0], end_dof[0], n,
                                              sparse),
                    !.currenti = end_dof[0]],
                 1)

RootStart ==
  /\ pc[0] = "start"
  /\ \E r \in {RootBegin(Root)} :
       /\ SetRoot(r)
       /\ pc' = [pc EXCEPT ![0] = r.pc]
  /\ UNCHANGED <<matVars, sendbuf, nsent, chan, otherVars>>

\* A plausible slip: the rank test of line 235 dropped, so that every rank
\* writes its own rows.
NonRootLinesOwn(p) == LocalLines(first_dof[p], end_dof[p], n, sparse)

\* The lines the branch of lines 320-344 writes to the stream: it holds no
\* `os <<`.
NonRootLines(p) == <<>>

\* Lines 227-340 on a non-root rank: the checks and the scan.
Scan(p) ==
  /\ p \in NonRoots
  /\ pc[p] = "start"
  /\ IF ~is_initialized[p] \/ ~has_dof_map[p]
       THEN /\ pc' = [pc EXCEPT ![p] = "failed"]
            /\ UNCHANGED <<sendbuf, os, writers>>
       ELSE /\ pc' = [pc EXCEPT ![p] = "send"]
            /\ sendbuf' = [sendbuf EXCEPT ![p] = ScanLocal(p)]
            /\ \E lines \in {NonRootLines(p)} :
                 /\ os' = os \o lines
                 /\ writers' = IF lines # <<>> THEN writers \cup {p}
                                               ELSE writers
  /\ UNCHANGED <<matVars, nsent, chan, rootp, nrecv, recvLog, ibuf, jbuf,
                 cbuf, currenti, rootLog, otherVars>>

AfterSend(p) == IF nsent[p] + 1 = 3 THEN "done" ELSE "send"

\* Lines 341-343, a send the transport buffers: it completes at once.
Send(p) ==
  /\ p \in NonRoots
  /\ ~sync
  /\ pc[p] = "send"
  /\ chan' = [chan EXCEPT ![p] = Append(@, sendbuf[p][nsent[p] + 1])]
  /\ nsent' = [nsent EXCEPT ![p] = @ + 1]
  /\ pc' = [pc EXCEPT ![p] = AfterSend(p)]
  /\ UNCHANGED <<matVars, sendbuf, rootVars, writers, otherVars>>

\* Lines 265-267, a receive of a buffered vector.
Receive ==
  /\ pc[0] = "receive"
  /\ \E src \in ReceiveSource(rootp) :
       /\ src \in DOMAIN chan
       /\ chan[src] # <<>>
       /\ \E r \in {RootTake(Root, src, Head(chan[src]))} :
            /\ SetRoot(r)
            /\ pc' = [pc EXCEPT ![0] = r.pc]
       /\ chan' = [chan EXCEPT ![src] = Tail(@)]
  /\ UNCHANGED <<matVars, sendbuf, nsent, otherVars>>

\* A send that completes only together with its matching receive.
Rendezvous(p) ==
  /\ p \in NonRoots
  /\ sync
  /\ pc[p] = "send"
  /\ pc[0] = "receive"
  /\ p \in ReceiveSource(rootp)
  /\ \E r \in {RootTake(Root, p, sendbuf[p][nsent[p] + 1])} :
       /\ SetRoot(r)
       /\ pc' = [pc EXCEPT ![0] = r.pc, ![p] = AfterSend(p)]
  /\ nsent' = [nsent EXCEPT ![p] = @ + 1]
  /\ UNCHANGED <<matVars, sendbuf, chan, otherVars>>

\* The vectors a sender that is not this code may put on the wire: index
\* vectors of any content, value vectors of any length.
RECURSIVE SeqsUpTo(_, _)
SeqsUpTo(S, k) ==
  IF k = 0 THEN {<<>>}
  ELSE LET shorter == SeqsUpTo(S, k - 1) IN
         shorter \cup {Append(q, x) : q \in shorter, x \in S}
WireVectors(which) ==
  IF which = 2 THEN {[k \in 1..len |-> 1] : len \in 0..MaxBuf}
  ELSE SeqsUpTo(0..MaxWire, MaxBuf)

\* Lines 265-267, a receive from a sender that is not this code: the
\* vector is whatever the transport delivers.
ReceiveForeign ==
  /\ pc[0] = "receive"
  /\ pc[rootp] = "foreign"
  /\ \E v \in WireVectors(nrecv % 3) :
       \E r \in {RootTake(Root, rootp, v)} :
         /\ SetRoot(r)
         /\ pc' = [pc EXCEPT ![0] = r.pc]
  /\ UNCHANGED <<matVars, sendbuf, nsent, chan, otherVars>>

(***************************************************************************)
(* print, the Complex specialization: lines 116-141                        *)
(***************************************************************************)
\* One line of its output: a label, a row of fields, or an empty line.
CLine(kind, label, fields) == [kind |-> kind, label |-> label, fields |-> fields]

RECURSIVE CFields(_, _, _, _)
\* Lines 129-130 and 137-138: the fields of row i of `part` from column j.
CFields(part, i, j, ncols) ==
  IF j >= ncols THEN <<>>
  ELSE <<Shown(part[<<i, j>>])>> \o CFields(part, i, j + 1, ncols)

RECURSIVE CRows(_, _, _, _)
\* Lines 127-132 and 135-140: the rows of `part` from row i.
CRows(part, i, nrows, ncols) ==
  IF i >= nrows THEN <<>>
  ELSE <<CLine("row", "", CFields(part, i, 0, ncols))>>
         \o CRows(part, i + 1, nrows, ncols)

\* A plausible slip: the specialization following the gather of the real
\* print, where a rank other than 0 sends its three vectors and writes
\* nothing.
ComplexPrintGathered(c) ==
  IF c.sparse
    THEN [c EXCEPT !.status = "not_implemented"]
  ELSE IF c.rank # 0
    THEN [c EXCEPT !.status = "done", !.msgs = 3]
  ELSE [c EXCEPT !.status = "done",
                 !.os = <<CLine("label", "Real part:", <<>>)>>
                        \o CRows(c.re, 0, c.m, c.n)
                        \o <<CLine("blank", "", <<>>),
                              CLine("label", "Imaginary part:", <<>>)>>
                        \o CRows(c.im, 0, c.m, c.n)]

\* SparseMatrix<Complex>::print on the call c: how it ends, what it wrote
\* (os) and how many sends and receives it made (msgs).
ComplexPrintResult(c) ==
  IF c.sparse
    THEN [c EXCEPT !.status = "not_implemented"]            \* line 123
  ELSE [c EXCEPT !.status = "done",
                 !.os = <<CLine("label", "Real part:", <<>>)>>       \* 126
                        \o CRows(c.re, 0, c.m, c.n)                  \* 127-132
                        \o <<CLine("blank", "", <<>>),               \* 134
                              CLine("label", "Imaginary part:", <<>>)>>
                        \o CRows(c.im, 0, c.m, c.n)]                 \* 135-140

print_complex ==
  /\ cplx.status = "pending"
  /\ cplx' = ComplexPrintResult(cplx)
  /\ UNCHANGED <<vec, attachVars, blockVars, buildVars, printVars>>

(***************************************************************************)
(* vector_mult, vector_mult_add: lines 194-211                             *)
(***************************************************************************)
\* NumericVector<T>::zero(): every entry becomes zero.
VecZero(dest) == [i \in DOMAIN dest |-> 0]

RECURSIVE RowTimes(_, _, _, _)
\* Entry i of M*arg, summed from column j on (entries counted from 0).
RowTimes(M, arg, i, j) ==
  IF j >= Len(arg) THEN 0
  ELSE M[<<i, j>>] * arg[j + 1] + RowTimes(M, arg, i, j + 1)

\* NumericVector<T>::add_vector(arg, M): dest += M*arg.
VecAddVector(dest, arg, M) ==
  [i \in DOMAIN dest |-> dest[i] + RowTimes(M, arg, i - 1, 0)]

\* vector_mult_add(dest, arg): lines 205-211.
VectorMultAdd(v) ==
  [v EXCEPT !.dest = VecAddVector(v.dest, v.arg, v.M),
            !.ops = v.ops \o <<"vector_mult_add", "add_vector">>]

\* A plausible slip: vector_mult without its dest.zero().
VectorMultNoZero(v) == VectorMultAdd(v)

\* vector_mult(dest, arg): lines 195-200.
VectorMult(v) ==
  VectorMultAdd([v EXCEPT !.dest = VecZero(v.dest),
                          !.ops = Append(v.ops, "zero")])

vector_mult ==
  /\ vec.status = "ready"
  /\ vec.ncalls < MaxVecCalls
  /\ vec' = [VectorMult([vec EXCEPT !.ops = <<>>])
               EXCEPT !.call = "vector_mult", !.ncalls = vec.ncalls + 1]
  /\ UNCHANGED <<cplx, attachVars, blockVars, buildVars, printVars>>

vector_mult_add ==
  /\ vec.status = "ready"
  /\ vec.ncalls < MaxVecCalls
  /\ vec' = [VectorMultAdd([vec EXCEPT !.ops = <<>>])
               EXCEPT !.call = "vector_mult_add", !.ncalls = vec.ncalls + 1]
  /\ UNCHANGED <<cplx, attachVars, blockVars, buildVars, printVars>>

(***************************************************************************)
(* Specifications                                                          *)
(***************************************************************************)
NoCall == [solver_package |-> "none", matrix_build_type |-> "none"]
IdleAttach ==
  /\ Constructed
  /\ dmSp = [d \in DofMaps |-> NULL]
IdleBlock ==
  /\ blockIn = [dm |-> [m |-> 0, n |-> 0], brows |-> <<>>, bcols |-> <<>>]
  /\ blockOut = [status |-> "idle"]
  /\ addCalls = <<>>
  /\ divTraps = TRUE
IdleBuild ==
  /\ have = {}
  /\ buildCall = NoCall
  /\ built = [kind |-> "none"]
IdleComplex == cplx = [status |-> "idle"]
IdleVec == vec = [status |-> "idle"]
IdleAux == IdleComplex /\ IdleVec
\* No rank has called print yet.
PrintNotStarted ==
  /\ pc \in [Ranks -> {"start", "foreign", "absent"}]
  /\ pc[0] = "start"
  /\ sendbuf = [p \in NonRoots |-> <<>>]
  /\ nsent = [p \in NonRoots |-> 0]
  /\ chan = [p \in NonRoots |-> <<>>]
  /\ rootp = 0
  /\ nrecv = 0
  /\ recvLog = <<>>
  /\ ibuf = <<>> /\ jbuf = <<>> /\ cbuf = <<>>
  /\ currenti = 0
  /\ os = <<>>
  /\ rootLog = <<>>
  /\ writers = {}
IdlePrint ==
  /\ m = 0 /\ n = 0 /\ A = <<>> /\ nprocs = 1
  /\ first_dof = [p \in {0} |-> 0] /\ end_dof = [p \in {0} |-> 0]
  /\ is_initialized = [p \in {0} |-> TRUE]
  /\ has_dof_map = [p \in {0} |-> TRUE]
  /\ sparse = FALSE /\ sync = FALSE
  /\ PrintNotStarted
  /\ pc = [p \in {0} |-> "start"]

\* ---- attach_*: a fresh matrix, any DofMaps
InitAttach ==
  /\ Constructed
  /\ dmSp \in [DofMaps -> Patterns \cup {NULL}]
  /\ IdleBlock /\ IdleBuild /\ IdlePrint /\ IdleAux
NextAttach ==
  \/ \E d \in DofMaps : attach_dof_map(d)
  \/ \E sp \in Patterns : attach_sparsity_pattern(sp)
SpecAttach == InitAttach /\ [][NextAttach]_vars

\* ---- add_block_matrix: any element matrix shape and block index vectors
BlockIdxSeqs ==
  UNION {[1..k -> 0..MaxBlockIdx] : k \in 0..MaxBlocks}
InitBlock ==
  /\ \E R \in 0..MaxDim, C \in 0..MaxDim :
       \E brows \in BlockIdxSeqs, bcols \in BlockIdxSeqs :
         blockIn = [dm |-> [m |-> R, n |-> C], brows |-> brows, bcols |-> bcols]
  /\ blockOut = [status |-> "pending"]
  /\ addCalls = <<>>
  /\ divTraps \in BOOLEAN
  /\ IdleAttach /\ IdleBuild /\ IdlePrint /\ IdleAux
NextBlock == add_block_matrix
SpecBlock == InitBlock /\ [][NextBlock]_vars

\* ---- build: any set of compiled-in backends
InitBuild ==
  /\ have \in SUBSET HaveMacros
  /\ buildCall = NoCall
  /\ built = [kind |-> "none"]
  /\ IdleAttach /\ IdleBlock /\ IdlePrint /\ IdleAux
NextBuild ==
  \E sp \in SolverPackages, t \in MatrixBuildTypes : build(sp, t)
SpecBuild == InitBuild /\ [][NextBuild]_vars

\* ---- print: every rank calls print on an initialized matrix with a
\* DofMap, the rows partitioned contiguously by increasing rank from row 0.
EntryValue(i, j, ncols) == i * ncols + j + 1
Cells(nrows, ncols) == (0..(nrows - 1)) \X (0..(ncols - 1))
\* The matrix whose nonzero entries are those of S, each with its own value.
PatternMatrix(S, nrows, ncols) ==
  [c \in Cells(nrows, ncols) |->
     IF c \in S THEN EntryValue(c[1], c[2], ncols) ELSE 0]
\* end_dof per rank: non-decreasing and ending at the global row count.
Partitions(nrows, np) ==
  {e \in [0..(np - 1) -> 0..nrows] :
     /\ e[np - 1] = nrows
     /\ \A p \in 1..(np - 1) : e[p - 1] <= e[p]}
FirstOf(e) == [p \in DOMAIN e |-> IF p = 0 THEN 0 ELSE e[p - 1]]

\* The spec's scenario: 3x3, rank 0 owns rows [0,2), rank 1 owns [2,3).
ScenarioA ==
  [c \in Cells(3, 3) |->
     IF c = <<0, 0>> THEN 1 ELSE IF c = <<1, 1>> THEN 2
     ELSE IF c = <<2, 0>> THEN 3 ELSE 0]
IsScenario ==
  /\ m = 3 /\ n = 3 /\ nprocs = 2 /\ A = ScenarioA
  /\ end_dof = [p \in 0..1 |-> IF p = 0 THEN 2 ELSE 3]

InitPrint ==
  /\ \/ /\ nprocs \in 1..MaxP
        /\ m \in 0..(MaxSize - nprocs)
        /\ n \in 0..(MaxSize - nprocs - m)
        /\ \E S \in SUBSET Cells(m, n) : A = PatternMatrix(S, m, n)
        /\ end_dof \in Partitions(m, nprocs)
     \/ IsScenario
  /\ first_dof = FirstOf(end_dof)
  /\ is_initialized = [p \in Ranks |-> TRUE]
  /\ has_dof_map = [p \in Ranks |-> TRUE]
  /\ sparse \in BOOLEAN
  /\ sync \in BOOLEAN
  /\ PrintNotStarted
  /\ pc = [p \in Ranks |-> "start"]
  /\ IdleAttach /\ IdleBlock /\ IdleBuild /\ IdleAux
NextPrint ==
  \/ RootStart
  \/ Receive
  \/ \E p \in NonRoots : Scan(p)
  \/ \E p \in NonRoots : Send(p)
  \/ \E p \in NonRoots : Rendezvous(p)
SpecPrint == InitPrint /\ [][NextPrint]_vars

\* Each rank runs on its own processor and the transport delivers, so no
\* rank that can take a step waits forever; the weaker condition that the
\* group as a whole does not stop while some rank can step is all that is
\* assumed here.
FairSpecPrint == SpecPrint /\ WF_vars(NextPrint)

\* ---- print with one sender that is not this code: rank 0 runs print, what
\* it receives from rank 1 is arbitrary.  The root owns rows [0, end_dof).
FullMatrix(nrows, ncols) == PatternMatrix(Cells(nrows, ncols), nrows, ncols)
InitPrintForeign ==
  /\ nprocs = 2
  /\ m \in 0..(MaxWire + 1)
  /\ n \in 0..MaxWire
  /\ A = FullMatrix(m, n)
  /\ \E e \in 0..m : /\ end_dof = [p \in Ranks |-> IF p = 0 THEN e ELSE m]
                      /\ first_dof = [p \in Ranks |-> IF p = 0 THEN 0 ELSE e]
  /\ is_initialized = [p \in Ranks |-> TRUE]
  /\ has_dof_map = [p \in Ranks |-> TRUE]
  /\ sparse \in BOOLEAN
  /\ sync = FALSE
  /\ PrintNotStarted
  /\ pc = [p \in Ranks |-> IF p = 0 THEN "start" ELSE "foreign"]
  /\ IdleAttach /\ IdleBlock /\ IdleBuild /\ IdleAux
\* ---- print whose preconditions may fail: on each rank the matrix may be
\* uninitialized or without a DofMap, and the root's range may start late.
InitPrintPre ==
  /\ nprocs \in 1..MaxP
  /\ m \in 0..(MaxSize - 1 - nprocs)
  /\ n \in 0..(MaxSize - 1 - nprocs - m)
  /\ A = FullMatrix(m, n)
  /\ end_dof \in Partitions(m, nprocs)
  /\ \E f \in 0..end_dof[0] : first_dof = [FirstOf(end_dof) EXCEPT ![0] = f]
  /\ is_initialized \in [Ranks -> BOOLEAN]
  /\ has_dof_map \in [Ranks -> BOOLEAN]
  /\ sparse \in BOOLEAN
  /\ sync \in BOOLEAN
  /\ PrintNotStarted
  /\ pc = [p \in Ranks |-> "start"]
  /\ IdleAttach /\ IdleBlock /\ IdleBuild /\ IdleAux
SpecPrintPre == InitPrintPre /\ [][NextPrint]_vars

\* ---- the Complex print, called on any rank of a group of MaxP, on a
\* matrix whose real and imaginary parts are nonzero on any sets of cells
\* (value k in the real part, k + 1 in the imaginary part).
InitComplex ==
  /\ \E cm \in 0..MaxCSize :
       \E cn \in 0..(MaxCSize - cm) :
         \E S1 \in SUBSET Cells(cm, cn), S2 \in SUBSET Cells(cm, cn) :
           \E sp \in BOOLEAN, rank \in 0..(MaxP - 1) :
             cplx = [status |-> "pending", m |-> cm, n |-> cn,
                     re |-> PatternMatrix(S1, cm, cn),
                     im |-> [c \in Cells(cm, cn) |->
                               IF c \in S2 THEN EntryValue(c[1], c[2], cn) + 1
                               ELSE 0],
                     sparse |-> sp, rank |-> rank, os |-> <<>>, msgs |-> 0]
  /\ IdleVec
  /\ IdleAttach /\ IdleBlock /\ IdleBuild /\ IdlePrint
NextComplex == print_complex
SpecComplex == InitComplex /\ [][NextComplex]_vars

\* ---- sparse print of matrices with short and long values: entry k of the
\* pattern matrix as it is, with StreamPrecision zeros appended, or with
\* 10^StreamPrecision added.
ValueForms == {"short", "scaled", "long"}
FormValue(form, v) ==
  IF v = 0 THEN 0
  ELSE IF form = "scaled" THEN v * Pow10(StreamPrecision)
  ELSE IF form = "long" THEN v + Pow10(StreamPrecision)
  ELSE v
InitRoundTrip ==
  /\ nprocs \in 1..MaxP
  /\ m \in 0..(MaxSize - nprocs)
  /\ n \in 0..(MaxSize - nprocs - m)
  /\ \E S \in SUBSET Cells(m, n), form \in ValueForms :
       A = [c \in Cells(m, n) |-> FormValue(form, PatternMatrix(S, m, n)[c])]
  /\ end_dof \in Partitions(m, nprocs)
  /\ first_dof = FirstOf(end_dof)
  /\ is_initialized = [p \in Ranks |-> TRUE]
  /\ has_dof_map = [p \in Ranks |-> TRUE]
  /\ sparse = TRUE
  /\ sync \in BOOLEAN
  /\ PrintNotStarted
  /\ pc = [p \in Ranks |-> "start"]
  /\ IdleAttach /\ IdleBlock /\ IdleBuild /\ IdleAux
SpecRoundTrip == InitRoundTrip /\ [][NextPrint]_vars

\* ---- vector_mult / vector_mult_add on any small matrix and vectors;
\* dest and arg are two vectors, of length m and n.
VecValues(len) == [1..len -> 0..MaxVecVal]
InitVec ==
  /\ \E vm \in 0..MaxVecSize :
       \E vn \in 0..(MaxVecSize - vm) :
         \E S \in SUBSET Cells(vm, vn) :
           \E arg \in VecValues(vn), dest \in VecValues(vm) :
             vec = [status |-> "ready", M |-> PatternMatrix(S, vm, vn),
                    arg |-> arg, dest |-> dest, ops |-> <<>>,
                    call |-> "none", ncalls |-> 0]
  /\ IdleComplex
  /\ IdleAttach /\ IdleBlock /\ IdleBuild /\ IdlePrint
NextVec ==
  \/ vector_mult
  \/ vector_mult_add
SpecVec == InitVec /\ [][NextVec]_vars

\* ---- print with a DofMap of k <= m rows: the ranks' ranges are contiguous
\* from row 0 by increasing rank and end at k; rows [k, m) are nobody's.
InitPrintShort ==
  /\ nprocs \in 1..MaxP
  /\ m \in 0..(MaxSize - nprocs)
  /\ n \in 0..(MaxSize - nprocs - m)
  /\ \E S \in SUBSET Cells(m, n) : A = PatternMatrix(S, m, n)
  /\ \E k \in 0..m : end_dof \in Partitions(k, nprocs)
  /\ first_dof = FirstOf(end_dof)
  /\ is_initialized = [p \in Ranks |-> TRUE]
  /\ has_dof_map = [p \in Ranks |-> TRUE]
  /\ sparse \in BOOLEAN
  /\ sync \in BOOLEAN
  /\ PrintNotStarted
  /\ pc = [p \in Ranks |-> "start"]
  /\ IdleAttach /\ IdleBlock /\ IdleBuild /\ IdleAux
SpecPrintShort == InitPrintShort /\ [][NextPrint]_vars

\* ---- print that some non-root ranks never call: they are "absent" and
\* take no step.
InitPrintAbsent ==
  /\ nprocs \in 1..MaxP
  /\ m \in 0..(MaxSize - nprocs)
  /\ n \in 0..(MaxSize - nprocs - m)
  /\ \E S \in SUBSET Cells(m, n) : A = PatternMatrix(S, m, n)
  /\ end_dof \in Partitions(m, nprocs)
  /\ first_dof = FirstOf(end_dof)
  /\ is_initialized = [p \in Ranks |-> TRUE]
  /\ has_dof_map = [p \in Ranks |-> TRUE]
  /\ sparse \in BOOLEAN
  /\ sync \in BOOLEAN
  /\ PrintNotStarted
  /\ pc \in [Ranks -> {"start", "absent"}]
  /\ IdleAttach /\ IdleBlock /\ IdleBuild /\ IdleAux
SpecPrintAbsent == InitPrintAbsent /\ [][NextPrint]_vars
\* The ranks that did call run on, as in FairSpecPrint.
FairSpecPrintAbsent == SpecPrintAbsent /\ WF_vars(NextPrint)

NextPrintForeign ==
  \/ RootStart
  \/ ReceiveForeign
SpecPrintForeign == InitPrintForeign /\ [][NextPrintForeign]_vars

(***************************************************************************)
(* The claims                                                              *)
(***************************************************************************)
LastCall == calls[Len(calls)]

\* C3: for an R x C element matrix and br >= 1, bc >= 1 block indices,
\* add_block_matrix fails fatally, without calling add_matrix, whenever
\* R/br # C/bc or R is no multiple of br or C is no multiple of bc.
C3_RejectsBadBlockShapes ==
  LET R  == blockIn.dm.m
      C  == blockIn.dm.n
      br == Len(blockIn.brows)
      bc == Len(blockIn.bcols)
  IN (/\ blockOut.status \in {"fatal", "added"}
      /\ br >= 1 /\ bc >= 1
      /\ \/ R \div br # C \div bc
         \/ R % br # 0
         \/ C % bc # 0)
     => (blockOut.status = "fatal" /\ addCalls = <<>>)

\* C4: with R % br = 0, C % bc = 0 and R/br = C/bc = bs, add_block_matrix
\* calls add_matrix exactly once, with the element matrix and index vectors
\* of lengths R and C where rows[k] = brows[k div bs]*bs + (k mod bs) and
\* cols[k] = bcols[k div bs]*bs + (k mod bs)  (k counted from 0).
ExpansionAsClaimed(minBlocksize) ==
  LET R  == blockIn.dm.m
      C  == blockIn.dm.n
      br == Len(blockIn.brows)
      bc == Len(blockIn.bcols)
  IN (/\ blockOut.status \in {"fatal", "added"}
      /\ br >= 1 /\ bc >= 1
      /\ R % br = 0 /\ C % bc = 0 /\ R \div br = C \div bc
      /\ R \div br >= minBlocksize)
     => LET bs == R \div br IN
          /\ blockOut.status = "added"
          /\ Len(addCalls) = 1
          /\ addCalls[1].dm = blockIn.dm
          /\ Len(addCalls[1].rows) = R
          /\ Len(addCalls[1].cols) = C
          /\ \A k \in 0..(R - 1) :
               addCalls[1].rows[k + 1]
                 = blockIn.brows[(k \div bs) + 1] * bs + (k % bs)
          /\ \A k \in 0..(C - 1) :
               addCalls[1].cols[k + 1]
                 = blockIn.bcols[(k \div bs) + 1] * bs + (k % bs)
C4_IndexExpansion == ExpansionAsClaimed(0)

\* C4 with the block size at least 1 (a non-empty element matrix): the
\* expansion is as claimed.
C4_IndexExpansionNonEmpty == ExpansionAsClaimed(1)
C4_NonEmptyWitness ==
  /\ blockOut.status = "added"
  /\ blockIn.dm = [m |-> 4, n |-> 2]
  /\ blockIn.brows = <<1, 0>>
  /\ blockIn.bcols = <<1>>
  /\ addCalls[1].rows = <<2, 3, 0, 1>>
  /\ addCalls[1].cols = <<2, 3>>

\* C5: build(comm, tag, DIAGONAL) returns the diagonal-only backend for
\* every vendor tag, compiled in or not, and never the unrecognized-solver-
\* package error.
C5_DiagonalOverride ==
  buildCall.matrix_build_type = "DIAGONAL"
    => /\ built.kind = "matrix"
       /\ built.variant = "DiagonalMatrix"
C5_Witness ==
  /\ buildCall.matrix_build_type = "DIAGONAL"
  /\ buildCall.solver_package = "INVALID_SOLVER_PACKAGE"
  /\ have = {}
  /\ built.kind = "matrix"
  /\ built.variant = "DiagonalMatrix"

\* C6: with AUTOMATIC, a vendor tag compiled into the build yields one new,
\* not-yet-initialized instance of the variant mapped to that tag; any other
\* tag yields no instance but the unrecognized-solver-package error naming
\* the tag.
VendorTable ==
  { <<"LASPACK_SOLVERS",  "LIBMESH_HAVE_LASPACK",         "LaspackMatrix">>,
    <<"PETSC_SOLVERS",    "LIBMESH_HAVE_PETSC",           "PetscMatrix">>,
    <<"TRILINOS_SOLVERS", "LIBMESH_TRILINOS_HAVE_EPETRA", "EpetraMatrix">>,
    <<"EIGEN_SOLVERS",    "LIBMESH_HAVE_EIGEN",           "EigenSparseMatrix">> }
C6_BuilderDispatch ==
  buildCall.matrix_build_type = "AUTOMATIC"
    => LET tag == buildCall.solver_package
           compiled == {v \in VendorTable : v[1] = tag /\ v[2] \in have}
       IN IF compiled # {}
            THEN /\ built.kind = "matrix"
                 /\ \A v \in compiled : built.variant = v[3]
                 /\ built.is_initialized = FALSE
                 /\ built.dof_map = NULL /\ built.sp = NULL
            ELSE /\ built.kind = "error"
                 /\ built.tag = tag
C6_Witness ==
  /\ buildCall.matrix_build_type = "AUTOMATIC"
  /\ buildCall.solver_package = "TRILINOS_SOLVERS"
  /\ have = HaveMacros \ {"LIBMESH_TRILINOS_HAVE_EPETRA"}
  /\ built.kind = "error"
  /\ built.tag = "TRILINOS_SOLVERS"

\* C9: on a freshly constructed matrix (both references null), every
\* attach_dof_map(d) sets _dof_map to d and changes _sp only if _sp was null
\* just before (then to d's pattern, which may be null); every
\* attach_sparsity_pattern(sp) sets _sp to sp and leaves _dof_map alone.
C9_AttachSemantics ==
  /\ (_dof_map = NULL /\ _sp = NULL)
  /\ [][LET c == calls'[Len(calls')] IN
          /\ c.op = "attach_dof_map"
               => /\ _dof_map' = c.arg
                  /\ _sp' = (IF _sp = NULL THEN dmSp[c.arg] ELSE _sp)
          /\ c.op = "attach_sparsity_pattern"
               => /\ _sp' = c.arg
                  /\ _dof_map' = _dof_map]_vars
C9_Witness ==
  /\ Len(calls) >= 2
  /\ LastCall.op = "attach_dof_map"
  /\ _dof_map = LastCall.arg
  /\ _sp # NULL
  /\ dmSp[LastCall.arg] # NULL
  /\ dmSp[LastCall.arg] # _sp

\* ---- print
TextOf(lines) == [k \in 1..Len(lines) |-> lines[k].text]
RootDone == pc[0] = "done"
RootHalted == pc[0] \in {"failed", "overrun"}
OwnedByNonRoot(i) == i >= end_dof[0]
ZeroRow(i) == \A j \in 0..(n - 1) : A[<<i, j>>] = 0
NonZeroCells == {c \in Cells(m, n) : A[c] # 0}

\* C1: after a dense print the root's output is, for i = 0..m-1 in order,
\* one line whose fields are the entries (i,0) .. (i,n-1) in order, zeros
\* written out; the 3x3 scenario prints 1 0 0 / 0 2 0 / 3 0 0.  The root
\* does not end in a failed check.
C1_DensePrintContent ==
  /\ ~RootHalted
  /\ (RootDone /\ ~sparse)
       => TextOf(os) = [i \in 1..m |-> [j \in 1..n |-> A[<<i - 1, j - 1>>]]]
  /\ (RootDone /\ ~sparse /\ IsScenario)
       => TextOf(os) = << <<1, 0, 0>>, <<0, 2, 0>>, <<3, 0, 0>> >>
C1_Witness ==
  /\ RootDone /\ ~sparse /\ IsScenario
  /\ nrecv = 3
  /\ TextOf(os) = << <<1, 0, 0>>, <<0, 2, 0>>, <<3, 0, 0>> >>

\* C2: after a sparse print the root's output has exactly one line
\* `row col value` per nonzero entry and no other line, in strictly
\* increasing (row, column) order; the 3x3 scenario prints 0 0 1, 1 1 2,
\* 2 0 3.
C2_SparsePrintContent ==
  /\ (RootDone /\ sparse)
       => /\ \A k \in 1..Len(os) :
               /\ Len(os[k].text) = 3
               /\ <<os[k].text[1], os[k].text[2]>> \in NonZeroCells
               /\ os[k].text[3] = A[<<os[k].text[1], os[k].text[2]>>]
          /\ \A c \in NonZeroCells :
               \E k \in 1..Len(os) : <<os[k].text[1], os[k].text[2]>> = c
          /\ \A a, b \in 1..Len(os) :
               a < b => \/ os[a].text[1] < os[b].text[1]
                        \/ /\ os[a].text[1] = os[b].text[1]
                           /\ os[a].text[2] < os[b].text[2]
  /\ (RootDone /\ sparse /\ IsScenario)
       => TextOf(os) = << <<0, 0, 1>>, <<1, 1, 2>>, <<2, 0, 3>> >>
C2_Witness ==
  /\ RootDone /\ sparse /\ nprocs >= 2
  /\ Len(os) >= 2
  /\ \E i \in 0..(m - 1) :
       /\ OwnedByNonRoot(i) /\ ZeroRow(i)
       /\ \E c \in NonZeroCells : c[1] > i

\* C7: the root writes its own rows first, then receives from rank 1, 2, ..
\* in that order, three vectors each, starting on rank p only when the
\* entries of all lower ranks are written; the rows it writes never
\* decrease.
C7_RankOrderedGather ==
  /\ \A k \in 1..Len(recvLog) : recvLog[k] = ((k - 1) \div 3) + 1
  /\ \A a, b \in 1..Len(os) : a < b => os[a].row <= os[b].row
  /\ (pc[0] = "receive" /\ nrecv = 0)
       => Len(os) = IF sparse
                      THEN Cardinality({c \in NonZeroCells : c[1] < end_dof[0]})
                      ELSE end_dof[0]
  /\ pc[0] = "receive"
       => /\ nrecv >= 3 * (rootp - 1)
          /\ \A c \in NonZeroCells :
               c[1] < first_dof[rootp] => \E k \in 1..Len(os) : os[k].row = c[1]
C7_Witness ==
  /\ nprocs >= 3
  /\ pc[0] = "receive" /\ rootp = 1
  /\ recvLog = <<1>>
  /\ chan[1] = <<>> /\ nsent[1] = 1
  /\ Len(chan[2]) = 3 /\ chan[2][1] # <<>>

\* C8: when every rank calls print, every run ends with all ranks done, the
\* non-root ranks after their three sends and the root after exactly
\* 3*(P-1) receives; no state short of that is a deadlock, also when sends
\* complete only with their receive.
Terminated ==
  /\ \A p \in Ranks : pc[p] = "done"
  /\ \A p \in NonRoots : nsent[p] = 3
  /\ nrecv = 3 * (nprocs - 1)
C8_CollectivePrintTerminates ==
  /\ [](Terminated \/ ENABLED NextPrint)
  /\ [](RootDone => nrecv = 3 * (nprocs - 1))
  /\ <>[]Terminated
C8_Witness ==
  /\ Terminated /\ sync /\ nprocs >= 3
  /\ os # <<>>

\* C10: a dense print writes exactly m lines of exactly n fields each, for
\* every shape (m = 0 and n = 0 included) and every contiguous partition
\* (ranks without rows, ranks with only zero rows, zero trailing rows).
C10_DensePrintShape ==
  /\ ~RootHalted
  /\ ~sparse => /\ Len(os) <= m
                /\ \A k \in 1..Len(os) : Len(os[k].text) = n
  /\ (RootDone /\ ~sparse) => Len(os) = m
C10_Witness ==
  /\ RootDone /\ ~sparse /\ nprocs >= 3 /\ m >= 1 /\ n >= 1
  /\ Len(os) = m
  /\ ZeroRow(m - 1)
  /\ \E p \in NonRoots : first_dof[p] = end_dof[p]
  /\ \E p \in NonRoots :
       /\ first_dof[p] < end_dof[p]
       /\ \A i \in first_dof[p]..(end_dof[p] - 1) : ZeroRow(i)

\* C11: when the third vector of a rank is in and the row vector is not
\* empty, the root goes on only if the first row received is >= the last row
\* already gone through and the last row received is >= the first; otherwise
\* it fails there, writing nothing more and receiving nothing more.  Lines
\* are never written for a buffer whose first row is not above every row
\* already written or whose rows decrease.  Three empty vectors are skipped
\* without a check and leave the row cursor alone.
ThirdReceive == nrecv' = nrecv + 1 /\ nrecv % 3 = 2
PassLogged == rootLog'[Len(rootLog) + 1]
RowsWritten == {os[k].row : k \in 1..Len(os)}
C11_ReceiptCheck ==
  [][
    /\ (ThirdReceive /\ ibuf # <<>>) =>
         (/\ (pc'[0] # "failed") =>
                (/\ ibuf[1] >= currenti - 1
                 /\ ibuf[Len(ibuf)] >= ibuf[1])
          /\ (ibuf[1] < currenti - 1 \/ ibuf[Len(ibuf)] < ibuf[1]) =>
                (/\ pc'[0] = "failed"
                 /\ os' = os)
          /\ (PassLogged.to > PassLogged.from) =>
                (/\ \A i \in RowsWritten : ibuf[1] > i
                 /\ ibuf[Len(ibuf)] >= ibuf[1]))
    /\ (ThirdReceive /\ ibuf = <<>> /\ jbuf = <<>> /\ cbuf' = <<>>) =>
         (/\ pc'[0] # "failed"
          /\ PassLogged.ev = "skip"
          /\ PassLogged.after = currenti
          /\ PassLogged.to = Len(os))
    /\ (pc[0] = "failed") =>
         (/\ pc'[0] = "failed"
          /\ os' = os
          /\ nrecv' = nrecv)
  ]_vars
C11_Witness ==
  /\ pc[0] = "failed"
  /\ Len(rootLog) = 1
  /\ rootLog[1].ev = "orderfail"
  /\ ibuf[1] >= currenti
  /\ ibuf[Len(ibuf)] < ibuf[1]
  /\ os # <<>>

\* C12: a rank whose matrix is not initialized or has no DofMap fails in
\* print before it writes, sends or receives anything; the root with
\* first_dof # 0 fails before it writes a row or receives anything.
Called(p) == pc[p] # "start"
CRowsOf(part, nrows, ncols) ==
  [i \in 1..nrows |->
     CLine("row", "", [j \in 1..ncols |-> part[<<i - 1, j - 1>>]])]
C13_ComplexPrint ==
  /\ cplx.status # "idle" => cplx.msgs = 0
  /\ (cplx.status \notin {"idle", "pending"} /\ cplx.sparse) =>
       (cplx.status = "not_implemented" /\ cplx.os = <<>>)
  /\ (cplx.status \notin {"idle", "pending"} /\ ~cplx.sparse) =>
       (/\ cplx.status = "done"
        /\ Len(cplx.os) = 2 * cplx.m + 3
        /\ cplx.os[1] = CLine("label", "Real part:", <<>>)
        /\ SubSeq(cplx.os, 2, cplx.m + 1) = CRowsOf(cplx.re, cplx.m, cplx.n)
        /\ cplx.os[cplx.m + 2].kind = "blank"
        /\ cplx.os[cplx.m + 3] = CLine("label", "Imaginary part:", <<>>)
        /\ SubSeq(cplx.os, cplx.m + 4, 2 * cplx.m + 3)
             = CRowsOf(cplx.im, cplx.m, cplx.n))
C13_Witness ==
  /\ cplx.status = "done"
  /\ cplx.rank # 0
  /\ cplx.m = 1 /\ cplx.n = 1
  /\ cplx.re[<<0, 0>>] = 1 /\ cplx.im[<<0, 0>>] = 2
  /\ cplx.os[2].fields = <<1>>
  /\ cplx.os[5].fields = <<2>>

\* C14: in a collective print only rank 0 ever writes to the stream.  A
\* step of a non-root rank that is not also a receive of the root leaves
\* the stream and the root alone; a non-root rank changes nothing but its
\* own buffers, its send count and its channel to rank 0, and sends three
\* vectors in all.
RootStepped == pc'[0] # pc[0] \/ nrecv' # nrecv
C14_SingleWriter ==
  /\ [](writers \subseteq {0})
  /\ [](\A p \in NonRoots : /\ nsent[p] <= 3
                             /\ pc[p] = "done" => nsent[p] = 3
                             /\ Len(chan[p]) <= nsent[p])
  /\ [][\A p \in NonRoots :
          (pc'[p] # pc[p]) =>
            (/\ ~RootStepped => UNCHANGED <<rootVars, writers>>
             /\ os' = os \/ RootStepped
             /\ UNCHANGED matVars
             /\ \A q \in NonRoots \ {p} :
                  /\ sendbuf'[q] = sendbuf[q]
                  /\ nsent'[q] = nsent[q]
                  /\ chan'[q] = chan[q])]_vars
C14_Witness ==
  /\ nprocs >= 3 /\ ~sparse
  /\ \A p \in Ranks : pc[p] = "done"
  /\ writers = {0}
  /\ Len(os) = m
  /\ \A p \in NonRoots : \E i \in first_dof[p]..(end_dof[p] - 1) : ~ZeroRow(i)

\* C15 as claimed: after a sparse print under a contiguous rank-ordered
\* partition, setting entry (row, col) of an all-zero m x n matrix to value
\* for each printed line `row col value` gives A, for every matrix of
\* integer values.
RECURSIVE Reinsert(_, _)
Reinsert(M, lines) ==
  IF lines = <<>> THEN M
  ELSE LET t == Head(lines).text IN
         Reinsert([M EXCEPT ![<<t[1], t[2]>>] = t[3]], Tail(lines))
ZeroMatrix == [c \in Cells(m, n) |-> 0]
C15_SparseRoundTrip ==
  (RootDone /\ sparse) => Reinsert(ZeroMatrix, os) = A

\* C15 amended: the same, for matrices whose values have at most
\* StreamPrecision (6) significant decimal digits.
RECURSIVE SigDigits(_)
SigDigits(c) ==
  IF c = 0 THEN 1
  ELSE IF c % 10 = 0 THEN SigDigits(c \div 10)
  ELSE Digits(c)
ShortValues == \A c \in Cells(m, n) : SigDigits(A[c]) <= StreamPrecision
C15_SparseRoundTripShort ==
  (RootDone /\ sparse /\ ShortValues) => Reinsert(ZeroMatrix, os) = A
C15_Witness ==
  /\ RootDone /\ sparse /\ ShortValues
  /\ nprocs >= 2
  /\ \E c, d \in NonZeroCells :
       /\ c[1] < end_dof[0] /\ d[1] >= end_dof[0]
       /\ c[1] # c[2]
       /\ A[d] > Pow10(StreamPrecision)
  /\ Reinsert(ZeroMatrix, os) = A

\* C16: vector_mult zeroes dest and then makes exactly one vector_mult_add,
\* so dest becomes this*arg whatever it held; vector_mult_add makes exactly
\* one dest.add_vector(arg, this), so dest becomes dest + this*arg; neither
\* changes the matrix or arg.
RECURSIVE SumOver(_, _, _, _)
SumOver(M, arg, i, J) ==
  IF J = {} THEN 0
  ELSE LET j == CHOOSE x \in J : TRUE IN
         M[<<i, j>>] * arg[j + 1] + SumOver(M, arg, i, J \ {j})
Product(M, arg, len) ==
  [i \in 1..len |-> SumOver(M, arg, i - 1, 0..(Len(arg) - 1))]
C16_VectorMult ==
  [][
    /\ vec'.M = vec.M
    /\ vec'.arg = vec.arg
    /\ (vec'.call = "vector_mult") =>
         (/\ vec'.ops = <<"zero", "vector_mult_add", "add_vector">>
          /\ vec'.dest = Product(vec.M, vec.arg, Len(vec.dest)))
    /\ (vec'.call = "vector_mult_add") =>
         (/\ vec'.ops = <<"vector_mult_add", "add_vector">>
          /\ vec'.dest = [i \in 1..Len(vec.dest) |->
                            vec.dest[i]
                              + Product(vec.M, vec.arg, Len(vec.dest))[i]])
  ]_vars
C16_Witness ==
  /\ vec.status = "ready"
  /\ vec.ncalls = 2
  /\ vec.call = "vector_mult"
  /\ Len(vec.dest) = 2 /\ Len(vec.arg) = 2
  /\ vec.arg = <<1, 1>>
  /\ vec.dest = <<3, 7>>

\* C17: whatever the mode, the three vectors a non-root rank holds after
\* its scan have one length and hold, in strictly increasing (row, column)
\* order, one triplet per nonzero entry of its rows [first_dof, end_dof)
\* and none for a zero entry; it sends them to rank 0 in the order rows,
\* columns, values, all three also when they are empty.
OwnedNonZero(p) ==
  {c \in NonZeroCells : first_dof[p] <= c[1] /\ c[1] < end_dof[p]}
Scanned(p) == pc[p] \in {"send", "done"}
C17_WireContent ==
  \A p \in NonRoots :
    Scanned(p) =>
      LET ib == sendbuf[p][1]
          jb == sendbuf[p][2]
          cb == sendbuf[p][3]
      IN /\ Len(sendbuf[p]) = 3
         /\ Len(ib) = Len(jb) /\ Len(ib) = Len(cb)
         /\ Len(ib) = Cardinality(OwnedNonZero(p))
         /\ \A k \in 1..Len(ib) :
              /\ <<ib[k], jb[k]>> \in OwnedNonZero(p)
              /\ cb[k] = A[<<ib[k], jb[k]>>]
         /\ \A k \in 1..(Len(ib) - 1) :
              \/ ib[k] < ib[k + 1]
              \/ (ib[k] = ib[k + 1] /\ jb[k] < jb[k + 1])
         /\ nsent[p] <= 3
         /\ pc[p] = "done" <=> nsent[p] = 3
         /\ Len(chan[p]) <= nsent[p]
         /\ chan[p] = SubSeq(sendbuf[p], nsent[p] - Len(chan[p]) + 1, nsent[p])
         /\ (pc[0] = "receive" /\ rootp = p /\ nrecv % 3 >= 1) => ibuf = ib
         /\ (pc[0] = "receive" /\ rootp = p /\ nrecv % 3 = 2) => jbuf = jb
C17_Witness ==
  /\ ~sparse /\ nprocs >= 3
  /\ \E p, q \in NonRoots :
       /\ first_dof[p] = end_dof[p]
       /\ nsent[p] = 3 /\ sendbuf[p] = << <<>>, <<>>, <<>> >>
       /\ nsent[q] = 3 /\ Len(sendbuf[q][1]) = 1
       /\ \E c \in Cells(m, n) :
            first_dof[q] <= c[1] /\ c[1] < end_dof[q] /\ A[c] = 0

\* C18 as claimed: once the last rank is drained the root writes all-zero
\* rows from the row cursor up to m, in dense mode only; it writes at least
\* one such row only if the last rank's range ends before m, and none under
\* a contiguous partition covering [0, m).
PadEvents == {k \in 1..Len(rootLog) : rootLog[k].ev = "pad"}
PadIsZeroRows(e) ==
  /\ e.to - e.from = m - e.before
  /\ e.to = Len(os)
  /\ \A k \in (e.from + 1)..e.to :
       /\ os[k].row = e.before + (k - e.from - 1)
       /\ os[k].text = [j \in 1..n |-> 0]
PaddingShape ==
  /\ sparse => PadEvents = {}
  /\ (RootDone /\ ~sparse) =>
       (/\ PadEvents = {Len(rootLog)}
        /\ PadIsZeroRows(rootLog[Len(rootLog)]))
LastRangeEnd == end_dof[nprocs - 1]
C18_TrailingPadding ==
  /\ PaddingShape
  /\ \A k \in PadEvents :
       /\ rootLog[k].to > rootLog[k].from => LastRangeEnd < m
       /\ LastRangeEnd = m => rootLog[k].to = rootLog[k].from

\* C18 amended: ... it writes at least one such row exactly when the row
\* cursor left by the last drain is below m, the cursor being the larger of
\* the root's end_dof and one past the last row of a non-root rank that
\* holds a nonzero entry: the padding covers the rows that are nobody's and
\* the all-zero rows at the end of the non-root ranks' ranges.
SetMax(S) == CHOOSE x \in S : \A y \in S : y <= x
CursorAfterDrains ==
  SetMax({end_dof[0]} \cup
         {c[1] + 1 : c \in {d \in NonZeroCells :
                              end_dof[0] <= d[1] /\ d[1] < LastRangeEnd}})
C18_TrailingPaddingFromCursor ==
  /\ PaddingShape
  /\ \A k \in PadEvents :
       /\ rootLog[k].before = CursorAfterDrains
       /\ rootLog[k].to > rootLog[k].from <=> CursorAfterDrains < m
C18_Witness ==
  /\ RootDone /\ ~sparse /\ nprocs >= 3
  /\ LastRangeEnd = m
  /\ first_dof[nprocs - 1] < m
  /\ NonZeroCells # {}
  /\ \E k \in PadEvents : rootLog[k].to > rootLog[k].from

\* C19: the root is done only after three receives from each of the ranks
\* 1..P-1.  If some non-root ranks never call print and q is the least of
\* them, the root never finishes: it takes nothing from a rank >= q, writes
\* no padding, and from some point on waits at rank q's first receive for
\* ever.
Absent == {p \in NonRoots : pc[p] = "absent"}
FirstAbsent == CHOOSE q \in Absent : \A p \in Absent : q <= p
BlockedAt(q) ==
  /\ pc[0] = "receive"
  /\ rootp = q
  /\ nrecv = 3 * (q - 1)
Untouched(p) ==
  /\ \A k \in 1..Len(recvLog) : recvLog[k] # p
  /\ chan[p] = SubSeq(sendbuf[p], 1, nsent[p])
  /\ sync => nsent[p] = 0
C19_MissingSenderStalls ==
  /\ [](RootDone =>
          /\ Absent = {}
          /\ recvLog = [k \in 1..(3 * (nprocs - 1)) |-> ((k - 1) \div 3) + 1])
  /\ [](Absent # {} =>
          /\ ~RootDone
          /\ nrecv <= 3 * (FirstAbsent - 1)
          /\ PadEvents = {}
          /\ \A p \in NonRoots : p >= FirstAbsent => Untouched(p))
  /\ <>[](Absent = {} \/ BlockedAt(FirstAbsent))
C19_Witness ==
  /\ nprocs >= 3 /\ ~sync /\ ~sparse
  /\ Absent = {1}
  /\ BlockedAt(1)
  /\ os # <<>>
  /\ pc[2] = "done" /\ Len(chan[2]) = 3 /\ chan[2][1] # <<>>

\* C20: when the root has drained the buffer a non-root rank built by its
\* scan, the buffer cursor equals the buffer's length and the row cursor is
\* one past the last row received; every triplet received was written
\* exactly once: in sparse mode the lines written are the triplets in
\* order, in dense mode each value sits in the field of its column on the
\* line of its row and every other field is zero.
DrainEvents == {k \in 1..Len(rootLog) : rootLog[k].ev = "drain"}
TripletsAt(p, row, col) ==
  {k \in 1..Len(sendbuf[p][1]) :
     sendbuf[p][1][k] = row /\ sendbuf[p][2][k] = col}
DrainedInFull(e) ==
  LET ib == sendbuf[e.p][1]
      jb == sendbuf[e.p][2]
      cb == sendbuf[e.p][3]
  IN /\ e.size = Len(ib)
     /\ e.currentb = e.size
     /\ e.after = ib[Len(ib)] + 1
     /\ \A k \in 1..Len(ib) : e.before <= ib[k] /\ ib[k] < e.after
     /\ sparse =>
          SubSeq(TextOf(os), e.from + 1, e.to)
            = [k \in 1..Len(ib) |-> <<ib[k], jb[k], cb[k]>>]
     /\ ~sparse =>
          /\ e.to - e.from = e.after - e.before
          /\ \A i \in 1..(e.to - e.from) :
               /\ os[e.from + i].row = e.before + i - 1
               /\ Len(os[e.from + i].text) = n
               /\ \A j \in 1..n :
                    LET ks == TripletsAt(e.p, e.before + i - 1, j - 1) IN
                      /\ Cardinality(ks) <= 1
                      /\ \A k \in ks : os[e.from + i].text[j] = cb[k]
                      /\ ks = {} => os[e.from + i].text[j] = 0
C20_NoTripletDropped ==
  /\ \A k \in 1..Len(rootLog) :
       rootLog[k].ev \in {"drain", "skip", "pad"}
  /\ \A k \in DrainEvents : DrainedInFull(rootLog[k])
  /\ \A p \in NonRoots :
       (pc[0] = "done" \/ rootp > p) =>
          \E k \in 1..Len(rootLog) :
            /\ rootLog[k].p = p
            /\ rootLog[k].ev = IF sendbuf[p][1] = <<>> THEN "skip" ELSE "drain"
C20_Witness ==
  /\ sparse /\ nprocs >= 3 /\ RootDone
  /\ \E k \in DrainEvents :
       /\ rootLog[k].size >= 2
       /\ rootLog[k].currentb = rootLog[k].size
       /\ rootLog[k].to - rootLog[k].from = rootLog[k].size

====
